---- MODULE Spec2Model ----
(***************************************************************************)
(* A model of the redbpf object loader (src/redbpf/src/lib.rs) and of the  *)
(* ingraind Grain that drives it (src/src/grains/grain.rs).                *)
(*                                                                         *)
(*   Spec         Module::parse of one object, then the Grain life cycle:  *)
(*                EBPFGrain::load, Grain::attach_kprobes, drop.            *)
(*   SpecProgram  Programs built by Program::new, then any sequence of     *)
(*                Program::load / Program::attach calls on them.           *)
(*   SpecVersion  the `version` section: get_version, get_kernel_version.  *)
(***************************************************************************)
EXTENDS Integers, Sequences, FiniteSets, TLC

VARIABLES
    pc,         \* where the run is: "scan", "reloc", "parsed", "loaded", ...
    shndx,      \* index of the section header the parse loop looks at next
    programs,   \* section index -> Program (Module::parse's `programs` BPF_MAP_TYPE_HASH)
    maps,       \* section index -> Map     (Module::parse's `maps` BPF_MAP_TYPE_HASH)
    rels,       \* the pending relocations  (Module::parse's `rels` Vec)
    relIdx,     \* number of relocations the second loop of parse has applied
    progOrder,  \* Module.programs: the order the BPF_MAP_TYPE_HASH was drained in
    mapOrder,   \* Module.maps: the order the BPF_MAP_TYPE_HASH was drained in
    cursor,     \* position of the Grain's loop over Module.programs
    err,        \* the LoadError the last failed operation returned, or NoErr
    klog,       \* what the kernel last wrote into a prog_load log buffer
    kernel,     \* the kernel's table of this process's open descriptors:
                \* descriptor -> "map", "prog" or "attach"
    vbytes,     \* content of the object's `version` section: four bytes
    release,    \* uname's release string, a sequence of characters
    version,    \* parse's `version`, a u32 kept as its two 16-bit halves
    calls,      \* how many kernel calls the last Map::load, Program::load or
                \* Program::attach issued
    cpus,       \* the cpus that are online
    rings,      \* the Rings bind_perf has opened, in the order it opened them
    attachCalls, \* how many attach operations the Grain's caller has invoked
    object,     \* the sections of the object a caller parses twice
    first,      \* the Module the first of the two parses returned, if it has
    lastCall,   \* the library call a caller made last, and whether an
                \* identifier it passed holds a NUL byte
    head,       \* a Ring's head cursor: bytes the kernel has published
    tail,       \* the Ring's tail cursor: bytes the reader has consumed
    data,       \* the Ring's data region, byte offset -> byte
    kpending,   \* size of the record the kernel has stored and not published
    rhead,      \* the head the reader loaded when it started to drain
    written,    \* the records the kernel has published, in order
    consumed,   \* how many records the reader has consumed
    delivered,  \* the payloads the reader has passed to the callback, in order
    lost        \* the reader's counter of records the kernel reported lost

\* The state of the Grain's rings.
ringVars == <<cpus, rings, attachCalls>>
\* What the actions of Module::parse and of the Program calls leave alone.
\* The state of a caller that parses one object twice.
twiceVars == <<object, first>>
\* The state of a caller of Map::load, Program::load and Program::attach.
callVars == <<lastCall>>
\* The state of one Ring, of the kernel that writes it and of its reader.
readerVars == <<head, tail, data, kpending, rhead, written, consumed, delivered,
                lost>>
auxVars == <<ringVars, twiceVars, callVars, readerVars>>

vars == <<pc, shndx, programs, maps, rels, relIdx, progOrder, mapOrder, cursor,
          err, klog, kernel, vbytes, release, version, calls, auxVars>>

(***************************************************************************)
(* Bounds of the model (inputs the object and the environment may supply). *)
(***************************************************************************)
\* Section headers of the object after the null header at index 0.
MaxSections == 4
\* Relocation entries in the whole object.
MaxRels == 2
\* Instructions in each program section.
CodeLen == 3
\* Programs a caller of Program::new builds.
MaxPrograms == 2
\* Descriptors the kernel hands out before the caller stops calling.
MaxFds == 4
\* Sections of an object whose section names are spelled out.
MaxNamedSections == 2
\* Bytes in a page of the host (scaled down).
PageSize == 4
\* Records the kernel writes into a Ring.
MaxWrites == 4
\* Online cpus of the host.
MaxCpus == 2
\* `maps/NAME` sections of the Grain's object.
MaxGrainMaps == 2
\* Attach operations the Grain's caller invokes.
MaxAttachCalls == 2

(***************************************************************************)
(* Program constants.                                                      *)
(***************************************************************************)
\* mem::size_of::<bpf_insn>()
InsnSize == 8
\* bpf_sys::BPF_PSEUDO_MAP_FD
BPF_PSEUDO_MAP_FD == 1
\* The map type bind_perf filters on: BPF_MAP_TYPE_PERF_EVENT_ARRAY.
PerfEventArray == 4
\* BPF_MAP_TYPE_HASH, a map type bind_perf passes over.
BPF_MAP_TYPE_HASH == 1
\* A page count bind_perf could pass that is no power of two.
PageCount_NotPowerOfTwo == 4 + 8
\* The page count bind_perf passes to PerfMap::bind.
PageCount == 16

EmptyFn == [x \in {} |-> 0]
NoErr == [tag |-> "none", payload |-> <<>>]
\* LoadError::BPF and LoadError::Reloc are unit variants: they carry nothing.
LoadError_BPF == [tag |-> "BPF", payload |-> <<>>]
LoadError_Reloc == [tag |-> "Reloc", payload |-> <<>>]
LoadError_StringConversion == [tag |-> "StringConversion", payload |-> <<>>]

\* Option<RawFd>: None is {}, Some(fd) is {fd}.
None == {}
Some(x) == {x}

\* bpf_insn: the opcode and registers the object supplied, and the two fields
\* a relocation writes.
Insn == [code: {24}, dst_reg: {1}, src_reg: 0..15, off: {0}, imm: Int]
ObjInsn == [code |-> 24, dst_reg |-> 1, src_reg |-> 0, off |-> 0, imm |-> 0]

\* The kernel returns the lowest descriptor that is not open; 0, 1 and 2 are
\* the process's standard streams.
StdStreams == {0, 1, 2}
NewFd(open) == CHOOSE fd \in 0..Cardinality(open \cup StdStreams) :
                  /\ fd \notin open \cup StdStreams
                  /\ \A g \in 0..(fd - 1) : g \in open \cup StdStreams
\* The kernel refuses a call by returning a negative descriptor.
Refused == -1
\* What the verifier writes into prog_load's log buffer when it refuses.
VerifierLog == <<"R1 invalid mem access">>

\* The object's symbol table: symbol index -> st_shndx.  Symbol 0 is ELF's
\* null symbol (SHN_UNDEF); symbols 1 and 2 are defined in sections 2 and 3.
symtab == [i \in 0..2 |-> IF i = 0 THEN 0 ELSE i + 1]

\* sh_info values a relocation section of the object may carry.
Targets == {1}
\* (r_offset, r_sym) pairs a relocation entry of the object may carry: two
\* instruction slots (20 is not a multiple of the instruction size), two
\* defined symbols, an offset past the program's end, and a symbol index
\* past the symbol table's end.
RelEntries == ({8, 20} \X {1, 2}) \cup {<<InsnSize * CodeLen, 1>>, <<8, 3>>}

SeqsUpTo(S, n) == UNION {[1..k -> S] : k \in 1..n}

ProgramKinds == {"Kprobe", "Kretprobe"}

\* Program::new
Program_new(kind) ==
    [pfd |-> None, fd |-> None, kind |-> kind,
     code |-> [i \in 0..(CodeLen - 1) |-> ObjInsn]]

\* add_rel: one Rel per entry of the relocation section, target = sh_info.
add_rel(rs, ndx, info, entries) ==
    rs \o [k \in 1..Len(entries) |->
             [shndx |-> ndx, target |-> info,
              offset |-> entries[k][1], sym |-> entries[k][2]]]

\* Rel::apply as it would be without the set_src_reg call.
Rel_apply_NoSrcReg(rel, progs, mps) ==
    IF rel.target \notin DOMAIN progs
    THEN [res |-> "Reloc", programs |-> progs]
    ELSE IF rel.sym \notin DOMAIN symtab
    THEN [res |-> "panic", programs |-> progs]
    ELSE IF symtab[rel.sym] \notin DOMAIN mps
    THEN [res |-> "Reloc", programs |-> progs]
    ELSE LET insn_idx == rel.offset \div InsnSize
             prog == progs[rel.target]
         IN IF insn_idx \notin DOMAIN prog.code
            THEN [res |-> "panic", programs |-> progs]
            ELSE [res |-> "Ok",
                  programs |->
                    [progs EXCEPT ![rel.target].code[insn_idx].imm =
                       mps[symtab[rel.sym]].fd]]

\* Rel::apply as it would be if it wrote the whole register byte, clearing
\* dst_reg along with setting src_reg.
Rel_apply_ClobbersDstReg(rel, progs, mps) ==
    IF rel.target \notin DOMAIN progs
    THEN [res |-> "Reloc", programs |-> progs]
    ELSE IF rel.sym \notin DOMAIN symtab
    THEN [res |-> "panic", programs |-> progs]
    ELSE IF symtab[rel.sym] \notin DOMAIN mps
    THEN [res |-> "Reloc", programs |-> progs]
    ELSE LET insn_idx == rel.offset \div InsnSize
             prog == progs[rel.target]
         IN IF insn_idx \notin DOMAIN prog.code
            THEN [res |-> "panic", programs |-> progs]
            ELSE [res |-> "Ok",
                  programs |->
                    [progs EXCEPT ![rel.target].code[insn_idx] =
                       [@ EXCEPT !.src_reg = BPF_PSEUDO_MAP_FD, !.dst_reg = 0,
                                 !.imm = mps[symtab[rel.sym]].fd]]]

\* Rel::apply as it would be if a missing Map were patched in as -1.
Rel_apply_MissingMapDefault(rel, progs, mps) ==
    IF rel.target \notin DOMAIN progs
    THEN [res |-> "Reloc", programs |-> progs]
    ELSE IF rel.sym \notin DOMAIN symtab
    THEN [res |-> "panic", programs |-> progs]
    ELSE LET insn_idx == rel.offset \div InsnSize
             prog == progs[rel.target]
             fd == IF symtab[rel.sym] \in DOMAIN mps
                   THEN mps[symtab[rel.sym]].fd ELSE -1
         IN IF insn_idx \notin DOMAIN prog.code
            THEN [res |-> "panic", programs |-> progs]
            ELSE [res |-> "Ok",
                  programs |->
                    [progs EXCEPT ![rel.target].code[insn_idx] =
                       [@ EXCEPT !.src_reg = BPF_PSEUDO_MAP_FD, !.imm = fd]]]

\* Rel::apply.  Returns the outcome and the programs after it.
Rel_apply(rel, progs, mps) ==
    IF rel.target \notin DOMAIN progs
    THEN [res |-> "Reloc", programs |-> progs]
    ELSE IF rel.sym \notin DOMAIN symtab
    THEN [res |-> "panic", programs |-> progs]
    ELSE IF symtab[rel.sym] \notin DOMAIN mps
    THEN [res |-> "Reloc", programs |-> progs]
    ELSE LET insn_idx == rel.offset \div InsnSize
             prog == progs[rel.target]
         IN IF insn_idx \notin DOMAIN prog.code
            THEN [res |-> "panic", programs |-> progs]
            ELSE [res |-> "Ok",
                  programs |->
                    [progs EXCEPT ![rel.target].code[insn_idx] =
                       [@ EXCEPT !.src_reg = BPF_PSEUDO_MAP_FD,
                                 !.imm = mps[symtab[rel.sym]].fd]]]

\* Map::load, given what bpf_create_map returned: one kernel call.
Map_load(kfd) ==
    IF kfd < 0
    THEN [res |-> "Err", err |-> LoadError_BPF, map |-> EmptyFn, calls |-> 1]
    ELSE [res |-> "Ok", err |-> NoErr, map |-> [fd |-> kfd], calls |-> 1]

\* Program::load as it would be if a refused load cleared the handle.
Program_load_ClearsOnFailure(prog, kfd) ==
    IF kfd < 0
    THEN [res |-> "Err", err |-> LoadError_BPF, calls |-> 1,
          prog |-> [prog EXCEPT !.fd = None]]
    ELSE [res |-> "Ok", err |-> NoErr, calls |-> 1,
          prog |-> [prog EXCEPT !.fd = Some(kfd)]]

\* Program::load as it would be if it stamped the handle into the code.
Program_load_PatchesCode(prog, kfd) ==
    IF kfd < 0
    THEN [res |-> "Err", err |-> LoadError_BPF, calls |-> 1, prog |-> prog]
    ELSE [res |-> "Ok", err |-> NoErr, calls |-> 1,
          prog |-> [prog EXCEPT !.fd = Some(kfd), !.code[0].imm = kfd]]

\* Program::load as it would be if it asked the kernel again after a
\* refusal.
Program_load_Retries(prog, kfd) ==
    IF kfd < 0
    THEN [res |-> "Err", err |-> LoadError_BPF, calls |-> 2, prog |-> prog]
    ELSE [res |-> "Ok", err |-> NoErr, calls |-> 1,
          prog |-> [prog EXCEPT !.fd = Some(kfd)]]

\* Program::load, given what bpf_prog_load returned.  The log buffer is a
\* local of the call and is not part of what load returns.  The body holds
\* one bpf_prog_load and no loop: `calls` is how many kernel calls it issued.
Program_load(prog, kfd) ==
    IF kfd < 0
    THEN [res |-> "Err", err |-> LoadError_BPF, calls |-> 1, prog |-> prog]
    ELSE [res |-> "Ok", err |-> NoErr, calls |-> 1,
          prog |-> [prog EXCEPT !.fd = Some(kfd)]]

\* Program::attach as it would be if a refused attach cleared the handles.
Program_attach_ClearsOnFailure(prog, kpfd) ==
    IF prog.fd = None
    THEN [res |-> "panic", err |-> NoErr, calls |-> 0, prog |-> prog]
    ELSE IF kpfd < 0
    THEN [res |-> "Err", err |-> LoadError_BPF, calls |-> 1,
          prog |-> [prog EXCEPT !.pfd = None, !.fd = None]]
    ELSE [res |-> "Ok", err |-> NoErr, calls |-> 1,
          prog |-> [prog EXCEPT !.pfd = Some(kpfd)]]

\* Program::attach, given what bpf_attach_kprobe would return.
\* `self.fd.unwrap()` panics on a Program that is not loaded, before the
\* kernel is called.
Program_attach(prog, kpfd) ==
    IF prog.fd = None
    THEN [res |-> "panic", err |-> NoErr, calls |-> 0, prog |-> prog]
    ELSE IF kpfd < 0
    THEN [res |-> "Err", err |-> LoadError_BPF, calls |-> 1, prog |-> prog]
    ELSE [res |-> "Ok", err |-> NoErr, calls |-> 1,
          prog |-> [prog EXCEPT !.pfd = Some(kpfd)]]

Program_is_loaded(prog) == prog.fd # None
Program_is_attached(prog) == prog.pfd # None

Perms(S) == {s \in [1..Cardinality(S) -> S] : \A i, j \in DOMAIN s : i # j => s[i] # s[j]}

(***************************************************************************)
(* The `version` section: get_version, get_kernel_version                  *)
(***************************************************************************)
\* A u32 as its high and low 16-bit halves.
U32(hi, lo) == [hi |-> hi, lo |-> lo]
\* 0xFFFFFFFE
VersionSentinel == U32(65535, 65534)

RECURSIVE BitOr(_, _)
BitOr(a, b) ==
    IF a = 0 THEN b
    ELSE IF b = 0 THEN a
    ELSE (IF a % 2 = 1 \/ b % 2 = 1 THEN 1 ELSE 0) + 2 * BitOr(a \div 2, b \div 2)

\* zero::read::<u32> of the section's bytes (little-endian host).
read_u32(bytes) == U32(bytes[3] + 256 * bytes[4], bytes[1] + 256 * bytes[2])

DigitChars == <<"0", "1", "2", "3", "4", "5", "6", "7", "8", "9">>
IsDigit(c) == \E d \in 1..10 : DigitChars[d] = c
DigitVal(c) == (CHOOSE d \in 1..10 : DigitChars[d] = c) - 1

\* The index of the first c in s, or 0.
IndexOf(s, c) ==
    IF \E i \in 1..Len(s) : s[i] = c
    THEN CHOOSE i \in 1..Len(s) : s[i] = c /\ \A j \in 1..(i - 1) : s[j] # c
    ELSE 0

\* str::splitn(n, c) as the sequence of its pieces.
RECURSIVE splitn(_, _, _)
splitn(s, n, c) ==
    IF n = 1 \/ IndexOf(s, c) = 0 THEN <<s>>
    ELSE <<SubSeq(s, 1, IndexOf(s, c) - 1)>>
         \o splitn(SubSeq(s, IndexOf(s, c) + 1, Len(s)), n - 1, c)

RECURSIVE DecimalValue(_)
DecimalValue(s) ==
    IF s = <<>> THEN 0
    ELSE 10 * DecimalValue(SubSeq(s, 1, Len(s) - 1)) + DigitVal(s[Len(s)])

\* u32::from_str: an optional `+`, then one or more decimal digits.  (The
\* strings of the model are short, so the value always fits a u32.)
u32_from_str(s) ==
    LET digits == IF s # <<>> /\ s[1] = "+" THEN Tail(s) ELSE s IN
      IF digits = <<>> \/ \E i \in 1..Len(digits) : ~IsDigit(digits[i])
      THEN [res |-> "Err", val |-> 0]
      ELSE [res |-> "Ok", val |-> DecimalValue(digits)]

\* The encoding as it would be with `+` in place of `|`.
EncodeVersion_Plus(major, minor, patch) ==
    LET low == minor * 256 + patch
    IN U32((major + (low \div 65536)) % 65536, low % 65536)

\* major << 16 | minor << 8 | patch, in 32 bits.
EncodeVersion(major, minor, patch) ==
    LET low == BitOr(minor * 256, patch)
    IN U32(BitOr(major % 65536, (low \div 65536) % 65536), low % 65536)

\* get_kernel_version on the release string uname returned.
get_kernel_version(urelease) ==
    LET release_package == splitn(urelease, 2, "-")
        pieces == splitn(release_package[1], 3, ".")
        major == u32_from_str(pieces[1])
        minor == IF Len(pieces) >= 2 THEN u32_from_str(pieces[2]) ELSE [res |-> "Err", val |-> 0]
        patch == IF Len(pieces) >= 3 THEN u32_from_str(pieces[3]) ELSE [res |-> "Err", val |-> 0]
    IN IF major.res = "Err" \/ minor.res = "Err" \/ patch.res = "Err"
       THEN [res |-> "Err", err |-> [tag |-> "KernelRelease", payload |-> urelease],
             val |-> U32(0, 0)]
       ELSE [res |-> "Ok", err |-> [tag |-> "none", payload |-> <<>>],
             val |-> EncodeVersion(major.val, minor.val, patch.val)]

\* get_version as it would be if it looked for 0xFFFFFFFF.
get_version_WrongSentinel(bytes, urelease) ==
    LET v == read_u32(bytes) IN
      IF v = U32(65535, 65535)
      THEN IF get_kernel_version(urelease).res = "Ok"
           THEN [res |-> "Ok", val |-> get_kernel_version(urelease).val]
           ELSE [res |-> "panic", val |-> v]
      ELSE [res |-> "Ok", val |-> v]

\* get_version: the sentinel is replaced by get_kernel_version().unwrap().
get_version(bytes, urelease) ==
    LET v == read_u32(bytes) IN
      IF v = VersionSentinel
      THEN IF get_kernel_version(urelease).res = "Ok"
           THEN [res |-> "Ok", val |-> get_kernel_version(urelease).val]
           ELSE [res |-> "panic", val |-> v]
      ELSE [res |-> "Ok", val |-> v]

\* Decimal digits of a number, as uname prints them.
RECURSIVE Decimal(_)
Decimal(n) ==
    IF n < 10 THEN <<DigitChars[n + 1]>>
    ELSE Decimal(n \div 10) \o <<DigitChars[(n % 10) + 1]>>

\* Release strings of the form MAJOR.MINOR.PATCH followed by a suffix.
ReleaseSuffixes == {<<>>, <<"-", "9", "1">>, <<"-", "9", "1", "-", "g">>}
FormatRelease(major, minor, patch, suffix) ==
    Decimal(major) \o <<".">> \o Decimal(minor) \o <<".">> \o Decimal(patch) \o suffix
ReleaseMajors == {4, 5}
ReleaseMinors == {4, 15}
ReleasePatches == {0, 277}
WellFormedReleases ==
    {FormatRelease(ma, mi, pa, su) :
       ma \in ReleaseMajors, mi \in ReleaseMinors, pa \in ReleasePatches,
       su \in ReleaseSuffixes}
\* Release strings kernels report that are not of that form:
\* "5.15", "4.19.0+" and "5.15.153.1-microsoft".
OtherReleases ==
    {<<"5", ".", "1", "5">>,
     <<"4", ".", "1", "9", ".", "0", "+">>,
     <<"5", ".", "1", "5", ".", "1", "5", "3", ".", "1", "-", "m", "i", "c",
       "r", "o", "s", "o", "f", "t">>}
Releases == WellFormedReleases \cup OtherReleases

\* Contents of the `version` section: 0xFFFFFFFE, 0x00FFFFFE, 0x00040F00, 0.
VersionBytes ==
    {<<254, 255, 255, 255>>, <<254, 255, 255, 0>>, <<0, 15, 4, 0>>, <<0, 0, 0, 0>>}

\* No Ring is mapped.
NoRing ==
    /\ head = 0
    /\ tail = 0
    /\ data = EmptyFn
    /\ kpending = 0
    /\ rhead = 0
    /\ written = <<>>
    /\ consumed = 0
    /\ delivered = <<>>
    /\ lost = 0

\* No library call has been made.
NoCall == [op |-> "none", prog |-> 0, nul |-> FALSE]

\* No ring is open where no Grain has attached.
AuxInit ==
    /\ cpus = {}
    /\ rings = <<>>
    /\ attachCalls = 0
    /\ object = <<>>
    /\ first = None
    /\ lastCall = NoCall
    /\ NoRing

(***************************************************************************)
(* Module::parse                                                           *)
(***************************************************************************)
Init ==
    /\ pc = "scan"
    /\ shndx = 1
    /\ programs = EmptyFn
    /\ maps = EmptyFn
    /\ rels = <<>>
    /\ relIdx = 0
    /\ progOrder = <<>>
    /\ mapOrder = <<>>
    /\ cursor = 0
    /\ err = NoErr
    /\ klog = <<>>
    /\ kernel = EmptyFn
    /\ vbytes = <<0, 0, 0, 0>>
    /\ release = <<>>
    /\ version = U32(0, 0)
    /\ calls = 0
    /\ AuxInit

Scanning == pc = "scan" /\ shndx <= MaxSections

\* A section no arm of the match recognizes: `_ => {}`.
ScanOther ==
    /\ Scanning
    /\ shndx' = shndx + 1
    /\ UNCHANGED <<pc, programs, maps, rels, relIdx, progOrder, mapOrder, cursor,
                   err, klog, kernel, vbytes, release, version>>
    /\ UNCHANGED <<calls, auxVars>>

\* A `maps/NAME` section, bpf_create_map succeeds: Map::load returns the Map.
ScanMapOk ==
    /\ Scanning
    /\ LET fd == NewFd(DOMAIN kernel)
           out == Map_load(fd)
       IN /\ out.res = "Ok"
          /\ calls' = out.calls
          /\ maps' = maps @@ (shndx :> out.map)
          /\ kernel' = kernel @@ (fd :> "map")
    /\ shndx' = shndx + 1
    /\ UNCHANGED <<pc, programs, rels, relIdx, progOrder, mapOrder, cursor,
                   err, klog, vbytes, release, version>>
    /\ UNCHANGED auxVars

\* A `maps/NAME` section, bpf_create_map is refused: Map::load returns
\* LoadError::BPF and `?` returns it from parse; the locals are dropped, and
\* dropping a Map (a plain RawFd, no Drop impl) closes nothing.
ScanMapRefused ==
    /\ Scanning
    /\ Map_load(Refused).res = "Err"
    /\ pc' = "err"
    /\ err' = Map_load(Refused).err
    /\ programs' = EmptyFn
    /\ maps' = EmptyFn
    /\ rels' = <<>>
    /\ relIdx' = 0
    /\ UNCHANGED <<shndx, progOrder, mapOrder, cursor, klog, kernel,
                   vbytes, release, version>>
    /\ calls' = Map_load(Refused).calls
    /\ UNCHANGED auxVars

\* A `kprobe/NAME` or `kretprobe/NAME` section.
ScanProg ==
    /\ Scanning
    /\ \E kind \in ProgramKinds :
         programs' = programs @@ (shndx :> Program_new(kind))
    /\ shndx' = shndx + 1
    /\ UNCHANGED <<pc, maps, rels, relIdx, progOrder, mapOrder, cursor,
                   err, klog, kernel, vbytes, release, version>>
    /\ UNCHANGED <<calls, auxVars>>

\* A relocation section (SHT_REL).
ScanRel ==
    /\ Scanning
    /\ Len(rels) < MaxRels
    /\ \E info \in Targets, entries \in SeqsUpTo(RelEntries, MaxRels - Len(rels)) :
         rels' = add_rel(rels, shndx, info, entries)
    /\ shndx' = shndx + 1
    /\ UNCHANGED <<pc, programs, maps, relIdx, progOrder, mapOrder, cursor,
                   err, klog, kernel, vbytes, release, version>>
    /\ UNCHANGED <<calls, auxVars>>

\* The section loop ends; the relocation loop starts.
ScanDone ==
    /\ pc = "scan"
    /\ shndx > MaxSections
    /\ pc' = "reloc"
    /\ UNCHANGED <<shndx, programs, maps, rels, relIdx, progOrder, mapOrder,
                   cursor, err, klog, kernel, vbytes, release, version>>
    /\ UNCHANGED <<calls, auxVars>>

\* One iteration of `for rel in rels.iter() { rel.apply(..)?; }`.
RelApply ==
    /\ pc = "reloc"
    /\ relIdx < Len(rels)
    /\ LET out == Rel_apply(rels[relIdx + 1], programs, maps) IN
         \/ /\ out.res = "Ok"
            /\ programs' = out.programs
            /\ relIdx' = relIdx + 1
            /\ UNCHANGED <<pc, maps, rels, err>>
         \/ /\ out.res = "Reloc"
            /\ pc' = "err"
            /\ err' = LoadError_Reloc
            /\ programs' = EmptyFn
            /\ maps' = EmptyFn
            /\ rels' = <<>>
            /\ relIdx' = 0
         \/ /\ out.res = "panic"
            /\ pc' = "panic_reloc"
            /\ programs' = EmptyFn
            /\ maps' = EmptyFn
            /\ rels' = <<>>
            /\ relIdx' = 0
            /\ UNCHANGED err
    /\ UNCHANGED <<shndx, progOrder, mapOrder, cursor, klog, kernel,
                   vbytes, release, version>>
    /\ UNCHANGED <<calls, auxVars>>

\* The HashMaps are drained into Module.programs and Module.maps, in the
\* HashMaps' iteration order, and parse returns Ok(Module).
ParseOk ==
    /\ pc = "reloc"
    /\ relIdx = Len(rels)
    /\ progOrder' \in Perms(DOMAIN programs)
    /\ mapOrder' \in Perms(DOMAIN maps)
    /\ pc' = "parsed"
    /\ cursor' = 0
    /\ UNCHANGED <<shndx, programs, maps, rels, relIdx, err, klog, kernel,
                   vbytes, release, version>>
    /\ UNCHANGED <<calls, auxVars>>

(***************************************************************************)
(* EBPFGrain::load after Module::parse, Grain::attach_kprobes, drop        *)
(***************************************************************************)
\* The Program the Grain's loop over Module.programs is at.
Current == progOrder[cursor + 1]

\* Unwinding a panic, or dropping the Grain, drops the Module.  Module,
\* Program and Map have no Drop impl and hold plain RawFds: nothing is closed.
DropModule ==
    /\ programs' = EmptyFn
    /\ maps' = EmptyFn
    /\ rels' = <<>>
    /\ relIdx' = 0
    /\ progOrder' = <<>>
    /\ mapOrder' = <<>>
    /\ cursor' = 0
    /\ UNCHANGED kernel

\* `prog.load(version, license).unwrap()`, the kernel accepts the program.
GrainLoadOk ==
    /\ pc = "parsed"
    /\ cursor < Len(progOrder)
    /\ LET fd == NewFd(DOMAIN kernel)
           out == Program_load(programs[Current], fd)
       IN /\ out.res = "Ok"
          /\ calls' = out.calls
          /\ programs' = [programs EXCEPT ![Current] = out.prog]
          /\ kernel' = kernel @@ (fd :> "prog")
    /\ cursor' = cursor + 1
    /\ UNCHANGED <<pc, shndx, maps, rels, relIdx, progOrder, mapOrder, err, klog,
                   vbytes, release, version>>
    /\ UNCHANGED auxVars

\* `prog.load(version, license).unwrap()`, the kernel refuses the program:
\* load returns Err(LoadError::BPF) and unwrap panics.
GrainLoadRefused ==
    /\ pc = "parsed"
    /\ cursor < Len(progOrder)
    /\ LET out == Program_load(programs[Current], Refused)
       IN /\ out.res = "Err"
          /\ calls' = out.calls
          /\ err' = out.err
    /\ klog' = VerifierLog
    /\ pc' = "panic_load"
    /\ DropModule
    /\ UNCHANGED <<shndx, vbytes, release, version>>
    /\ UNCHANGED auxVars

\* EBPFGrain::load returns Ok(Grain).
GrainLoaded ==
    /\ pc = "parsed"
    /\ cursor = Len(progOrder)
    /\ pc' = "loaded"
    /\ cursor' = 0
    /\ UNCHANGED <<shndx, programs, maps, rels, relIdx, progOrder, mapOrder, err,
                   klog, kernel, vbytes, release, version>>
    /\ UNCHANGED <<calls, auxVars>>

\* attach_kprobes: `prog.attach_probe().unwrap()`, the kernel attaches.
\* Every ProgramKind of the library passes the loop's filter; the library's
\* kprobe attach is Program::attach.  The rings bind_perf opens afterwards
\* are not part of this model.
GrainAttachOk ==
    /\ pc = "loaded"
    /\ cursor < Len(progOrder)
    /\ LET pfd == NewFd(DOMAIN kernel)
           out == Program_attach(programs[Current], pfd)
       IN /\ out.res = "Ok"
          /\ calls' = out.calls
          /\ programs' = [programs EXCEPT ![Current] = out.prog]
          /\ kernel' = kernel @@ (pfd :> "attach")
    /\ cursor' = cursor + 1
    /\ UNCHANGED <<pc, shndx, maps, rels, relIdx, progOrder, mapOrder, err, klog,
                   vbytes, release, version>>
    /\ UNCHANGED auxVars

\* attach_kprobes: `prog.attach_probe().unwrap()`, the kernel refuses:
\* attach returns Err(LoadError::BPF) and unwrap panics.
GrainAttachRefused ==
    /\ pc = "loaded"
    /\ cursor < Len(progOrder)
    /\ LET out == Program_attach(programs[Current], Refused)
       IN /\ out.res = "Err"
          /\ calls' = out.calls
          /\ err' = out.err
    /\ pc' = "panic_attach"
    /\ DropModule
    /\ UNCHANGED <<shndx, klog, vbytes, release, version>>
    /\ UNCHANGED auxVars

\* attach_kprobes: the loop is over and bind_perf returns the handlers.
GrainAttached ==
    /\ pc = "loaded"
    /\ cursor = Len(progOrder)
    /\ pc' = "attached"
    /\ UNCHANGED <<shndx, programs, maps, rels, relIdx, progOrder, mapOrder,
                   cursor, err, klog, kernel, vbytes, release, version>>
    /\ UNCHANGED <<calls, auxVars>>

\* The Grain goes out of scope.
GrainDrop ==
    /\ pc \in {"loaded", "attached"}
    /\ pc' = "dropped"
    /\ DropModule
    /\ UNCHANGED <<shndx, err, klog, vbytes, release, version>>
    /\ UNCHANGED <<calls, auxVars>>

(***************************************************************************)
(* A caller of the library's Program::load and Program::attach             *)
(***************************************************************************)
\* The caller has built its Programs with Program::new.
InitProgram ==
    /\ pc = "api"
    /\ shndx = 0
    /\ programs \in [1..MaxPrograms -> {Program_new(kind) : kind \in ProgramKinds}]
    /\ maps = EmptyFn
    /\ rels = <<>>
    /\ relIdx = 0
    /\ progOrder = <<>>
    /\ mapOrder = <<>>
    /\ cursor = 0
    /\ err = NoErr
    /\ klog = <<>>
    /\ kernel = EmptyFn
    /\ vbytes = <<0, 0, 0, 0>>
    /\ release = <<>>
    /\ version = U32(0, 0)
    /\ calls = 0
    /\ AuxInit

\* program.load(..): the kernel accepts or refuses.
ApiLoad ==
    /\ pc = "api"
    /\ Cardinality(DOMAIN kernel) < MaxFds
    /\ \E s \in DOMAIN programs :
         \E kfd \in {NewFd(DOMAIN kernel), Refused} :
           LET out == Program_load(programs[s], kfd) IN
             /\ programs' = [programs EXCEPT ![s] = out.prog]
             /\ err' = out.err
             /\ kernel' = IF kfd < 0 THEN kernel ELSE kernel @@ (kfd :> "prog")
             /\ klog' = IF kfd < 0 THEN VerifierLog ELSE <<>>
             /\ calls' = out.calls
    /\ UNCHANGED <<pc, shndx, maps, rels, relIdx, progOrder, mapOrder, cursor,
                   vbytes, release, version>>
    /\ UNCHANGED auxVars

\* program.attach(): panics on a Program that is not loaded; otherwise the
\* kernel attaches or refuses.
ApiAttach ==
    /\ pc = "api"
    /\ Cardinality(DOMAIN kernel) < MaxFds
    /\ \E s \in DOMAIN programs :
         \E kpfd \in {NewFd(DOMAIN kernel), Refused} :
           LET out == Program_attach(programs[s], kpfd) IN
             \/ /\ out.res = "panic"
                /\ pc' = "panic_attach"
                /\ calls' = out.calls
                /\ UNCHANGED <<programs, err, kernel>>
             \/ /\ out.res # "panic"
                /\ calls' = out.calls
                /\ programs' = [programs EXCEPT ![s] = out.prog]
                /\ err' = out.err
                /\ kernel' = IF kpfd < 0 THEN kernel ELSE kernel @@ (kpfd :> "attach")
                /\ UNCHANGED pc
    /\ UNCHANGED <<shndx, maps, rels, relIdx, progOrder, mapOrder, cursor, klog,
                   vbytes, release, version>>
    /\ UNCHANGED auxVars

(***************************************************************************)
(* Module::parse of an object that carries a `version` section             *)
(***************************************************************************)
InitVersion ==
    /\ pc = "scan"
    /\ shndx = 1
    /\ programs = EmptyFn
    /\ maps = EmptyFn
    /\ rels = <<>>
    /\ relIdx = 0
    /\ progOrder = <<>>
    /\ mapOrder = <<>>
    /\ cursor = 0
    /\ err = NoErr
    /\ klog = <<>>
    /\ kernel = EmptyFn
    /\ vbytes \in VersionBytes
    /\ release \in Releases
    /\ version = U32(0, 0)
    /\ calls = 0
    /\ AuxInit

\* The `version` section: `version = get_version(&content)`.
ScanVersion ==
    /\ pc = "scan"
    /\ shndx = 1
    /\ LET out == get_version(vbytes, release) IN
         \/ /\ out.res = "Ok"
            /\ version' = out.val
            /\ shndx' = shndx + 1
            /\ UNCHANGED pc
         \/ /\ out.res = "panic"
            /\ pc' = "panic_version"
            /\ UNCHANGED <<version, shndx>>
    /\ UNCHANGED <<programs, maps, rels, relIdx, progOrder, mapOrder, cursor,
                   err, klog, kernel, vbytes, release>>
    /\ UNCHANGED <<calls, auxVars>>

\* The object has no further section: parse returns Ok(Module).
VersionParsed ==
    /\ pc = "scan"
    /\ shndx = 2
    /\ pc' = "parsed"
    /\ UNCHANGED <<shndx, programs, maps, rels, relIdx, progOrder, mapOrder,
                   cursor, err, klog, kernel, vbytes, release, version>>
    /\ UNCHANGED <<calls, auxVars>>

Next ==
    \/ ScanOther
    \/ ScanMapOk
    \/ ScanMapRefused
    \/ ScanProg
    \/ ScanRel
    \/ ScanDone
    \/ RelApply
    \/ ParseOk
    \/ GrainLoadOk
    \/ GrainLoadRefused
    \/ GrainLoaded
    \/ GrainAttachOk
    \/ GrainAttachRefused
    \/ GrainAttached
    \/ GrainDrop

Spec == Init /\ [][Next]_vars

NextProgram ==
    \/ ApiLoad
    \/ ApiAttach

SpecProgram == InitProgram /\ [][NextProgram]_vars

NextVersion ==
    \/ ScanVersion
    \/ VersionParsed

SpecVersion == InitVersion /\ [][NextVersion]_vars

(***************************************************************************)
(* A Grain's attach operations and the rings bind_perf opens               *)
(***************************************************************************)
\* The n descriptors the kernel hands out next, in order.
RECURSIVE NewFds(_, _)
NewFds(open, n) ==
    IF n = 0 THEN <<>>
    ELSE <<NewFd(open)>> \o NewFds(open \cup {NewFd(open)}, n - 1)

\* The Map of a `maps/NAME` section whose definition gives `kind`.
MapOfKind(kind, kfd) == [kind |-> kind] @@ Map_load(kfd).map

\* PerfMap::bind(map, -1, cpu, page_cnt, -1, 0), given the descriptor the
\* kernel returned for the per-cpu event: the event is registered with the
\* Map under key `cpu` and its pages are mapped.
PerfMap_bind(shmap, cpu, page_cnt, kfd) ==
    IF kfd < 0
    THEN [res |-> "Err", ring |-> EmptyFn]
    ELSE [res |-> "Ok",
          ring |-> [map |-> shmap, cpu |-> cpu, key |-> cpu, fd |-> kfd,
                    page_cnt |-> page_cnt]]

\* cpus::get_online(): the online cpus in ascending order.
get_online(n) == [i \in 1..n |-> i - 1]

\* The (Map, cpu) pairs bind_perf's two loops visit, in order: the Module's
\* maps whose kind is 4, and for each of them every online cpu.
PerfPairs ==
    LET perf == SelectSeq(mapOrder, LAMBDA sh : maps[sh].kind = PerfEventArray)
    IN [i \in 1..(Len(perf) * Len(cpus)) |->
          [map |-> perf[((i - 1) \div Len(cpus)) + 1],
           cpu |-> cpus[((i - 1) % Len(cpus)) + 1]]]

\* bind_perf where every PerfMap::bind succeeds: the handlers it returns.
bind_perf(open) ==
    LET fds == NewFds(open, Len(PerfPairs))
    IN [i \in 1..Len(PerfPairs) |->
          PerfMap_bind(PerfPairs[i].map, PerfPairs[i].cpu, PageCount, fds[i]).ring]

\* The kernel's table once the descriptors fds are open as `what`.
Opened(table, fds, what) ==
    [fd \in (DOMAIN table) \cup {fds[i] : i \in 1..Len(fds)} |->
       IF fd \in DOMAIN table THEN table[fd] ELSE what]

\* EBPFGrain::load has returned a Grain: its object had up to MaxGrainMaps
\* `maps/NAME` sections, of kind hash or perf-event-array, and then one
\* kprobe or kretprobe section; the maps were created and the program loaded.
InitRings ==
    /\ pc = "loaded"
    /\ \E n \in 0..MaxGrainMaps :
         /\ shndx = n + 2
         /\ \E kinds \in [1..n -> {BPF_MAP_TYPE_HASH, PerfEventArray}] :
              maps = [sh \in 1..n |-> MapOfKind(kinds[sh], NewFds(StdStreams, n)[sh])]
         /\ \E kind \in ProgramKinds :
              programs = (n + 1) :> Program_load(Program_new(kind),
                                                 NewFds(StdStreams, n + 1)[n + 1]).prog
         /\ kernel = [fd \in {NewFds(StdStreams, n + 1)[i] : i \in 1..(n + 1)} |->
                        IF fd = NewFds(StdStreams, n + 1)[n + 1] THEN "prog" ELSE "map"]
         /\ progOrder = <<n + 1>>
         /\ mapOrder \in Perms(1..n)
    /\ rels = <<>>
    /\ relIdx = 0
    /\ cursor = 0
    /\ err = NoErr
    /\ klog = <<>>
    /\ vbytes = <<0, 0, 0, 0>>
    /\ release = <<>>
    /\ version = U32(0, 0)
    /\ calls = 1
    /\ \E n \in 1..MaxCpus : cpus = get_online(n)
    /\ rings = <<>>
    /\ attachCalls = 0
    /\ object = <<>>
    /\ first = None
    /\ lastCall = NoCall
    /\ NoRing

\* The Grain's caller may invoke another attach operation.
MayAttach ==
    /\ pc \in {"loaded", "attached"}
    /\ attachCalls < MaxAttachCalls

\* attach_kprobes: every Program of the library is a Kprobe or a Kretprobe
\* and is attached; then bind_perf opens a Ring for every Map of kind 4 and
\* every online cpu, and the handlers are returned.
AttachKprobes ==
    /\ MayAttach
    /\ LET sh == progOrder[1]
           pfd == NewFd(DOMAIN kernel)
           out == Program_attach(programs[sh], pfd)
           new == bind_perf(DOMAIN kernel \cup {pfd})
       IN /\ out.res = "Ok"
          /\ programs' = [programs EXCEPT ![sh] = out.prog]
          /\ calls' = out.calls
          /\ rings' = rings \o new
          /\ kernel' = Opened(kernel @@ (pfd :> "attach"),
                              [i \in 1..Len(new) |-> new[i].fd], "ring")
    /\ pc' = "attached"
    /\ attachCalls' = attachCalls + 1
    /\ UNCHANGED <<shndx, maps, rels, relIdx, progOrder, mapOrder, cursor, err,
                   klog, vbytes, release, version, cpus>>
    /\ UNCHANGED <<twiceVars, callVars, readerVars>>

\* attach_kprobes, the kernel refuses to attach: `.unwrap()` panics.
AttachKprobesRefused ==
    /\ MayAttach
    /\ LET out == Program_attach(programs[progOrder[1]], Refused)
       IN /\ out.res = "Err"
          /\ err' = out.err
          /\ calls' = out.calls
    /\ pc' = "panic_attach"
    /\ attachCalls' = attachCalls + 1
    /\ UNCHANGED <<shndx, programs, maps, rels, relIdx, progOrder, mapOrder,
                   cursor, klog, kernel, vbytes, release, version, cpus, rings>>
    /\ UNCHANGED <<twiceVars, callVars, readerVars>>

\* attach_xdps: the filter `p.kind == XDP` passes no Program of the library
\* (ProgramKind is Kprobe or Kretprobe), so nothing is attached; then
\* bind_perf opens a Ring for every Map of kind 4 and every online cpu.
AttachXdps ==
    /\ MayAttach
    /\ LET new == bind_perf(DOMAIN kernel)
       IN /\ rings' = rings \o new
          /\ kernel' = Opened(kernel, [i \in 1..Len(new) |-> new[i].fd], "ring")
    /\ pc' = "attached"
    /\ attachCalls' = attachCalls + 1
    /\ UNCHANGED <<shndx, programs, maps, rels, relIdx, progOrder, mapOrder,
                   cursor, err, klog, vbytes, release, version, calls, cpus>>
    /\ UNCHANGED <<twiceVars, callVars, readerVars>>

\* attach_xdps, the kernel refuses the first event bind_perf asks for:
\* `PerfMap::bind(..).unwrap()` panics.
AttachXdpsBindRefused ==
    /\ MayAttach
    /\ Len(PerfPairs) > 0
    /\ PerfMap_bind(PerfPairs[1].map, PerfPairs[1].cpu, PageCount, Refused).res = "Err"
    /\ pc' = "panic_bind"
    /\ attachCalls' = attachCalls + 1
    /\ UNCHANGED <<shndx, programs, maps, rels, relIdx, progOrder, mapOrder,
                   cursor, err, klog, kernel, vbytes, release, version, calls,
                   cpus, rings>>
    /\ UNCHANGED <<twiceVars, callVars, readerVars>>

NextRings ==
    \/ AttachKprobes
    \/ AttachKprobesRefused
    \/ AttachXdps
    \/ AttachXdpsBindRefused

SpecRings == InitRings /\ [][NextRings]_vars

(***************************************************************************)
(* A caller that parses the same object twice                              *)
(***************************************************************************)
\* Relocation entries of the objects parsed twice.
TwiceRelEntries == {<<8, 1>>, <<8, 2>>, <<8, 3>>}
\* The sections an object parsed twice is made of.
TwiceSections ==
    {[type |-> "other"], [type |-> "maps"]}
      \cup {[type |-> "prog", kind |-> kind] : kind \in ProgramKinds}
      \cup {[type |-> "rel", info |-> info, entries |-> <<e>>] :
               info \in Targets, e \in TwiceRelEntries}

\* The Module parse returns: Module.programs and Module.maps as the ordered
\* collections they are, each Program with the section it came from (its
\* name) and its instructions, each Map with its section (its name).
ParsedModule ==
    [programs |-> [i \in 1..Len(progOrder) |->
                     [section |-> progOrder[i],
                      kind |-> programs[progOrder[i]].kind,
                      code |-> programs[progOrder[i]].code]],
     maps |-> [i \in 1..Len(mapOrder) |-> [section |-> mapOrder[i]]]]

\* The caller holds an object of MaxSections sections.
InitTwice ==
    /\ pc = "scan"
    /\ shndx = 1
    /\ programs = EmptyFn
    /\ maps = EmptyFn
    /\ rels = <<>>
    /\ relIdx = 0
    /\ progOrder = <<>>
    /\ mapOrder = <<>>
    /\ cursor = 0
    /\ err = NoErr
    /\ klog = <<>>
    /\ kernel = EmptyFn
    /\ vbytes = <<0, 0, 0, 0>>
    /\ release = <<>>
    /\ version = U32(0, 0)
    /\ calls = 0
    /\ cpus = {}
    /\ rings = <<>>
    /\ attachCalls = 0
    /\ object \in {o \in [1..MaxSections -> TwiceSections] :
                     Cardinality({i \in 1..MaxSections : o[i].type = "rel"}) <= MaxRels}
    /\ first = None
    /\ lastCall = NoCall
    /\ NoRing

\* The section the scan is at is one no arm recognizes.
TwiceOther ==
    /\ Scanning
    /\ object[shndx].type = "other"
    /\ ScanOther

\* The section the scan is at is a `maps/NAME` section.
TwiceMapOk ==
    /\ Scanning
    /\ object[shndx].type = "maps"
    /\ ScanMapOk

TwiceMapRefused ==
    /\ Scanning
    /\ object[shndx].type = "maps"
    /\ ScanMapRefused

\* The section the scan is at is a `kprobe/NAME` or `kretprobe/NAME` section.
TwiceProg ==
    /\ Scanning
    /\ object[shndx].type = "prog"
    /\ ScanProg
    /\ programs'[shndx].kind = object[shndx].kind

\* The section the scan is at is a relocation section.
TwiceRel ==
    /\ Scanning
    /\ object[shndx].type = "rel"
    /\ ScanRel
    /\ rels' = add_rel(rels, shndx, object[shndx].info, object[shndx].entries)

\* The first parse has returned its Module; the caller keeps it and calls
\* Module::parse on the same bytes again.
TwiceAgain ==
    /\ pc = "parsed"
    /\ first = None
    /\ first' = Some(ParsedModule)
    /\ pc' = "scan"
    /\ shndx' = 1
    /\ programs' = EmptyFn
    /\ maps' = EmptyFn
    /\ rels' = <<>>
    /\ relIdx' = 0
    /\ progOrder' = <<>>
    /\ mapOrder' = <<>>
    /\ UNCHANGED <<cursor, err, klog, kernel, vbytes, release, version, calls,
                   ringVars, object, callVars, readerVars>>

NextTwice ==
    \/ TwiceOther
    \/ TwiceMapOk
    \/ TwiceMapRefused
    \/ TwiceProg
    \/ TwiceRel
    \/ ScanDone
    \/ RelApply
    \/ ParseOk
    \/ TwiceAgain

SpecTwice == InitTwice /\ [][NextTwice]_vars

(***************************************************************************)
(* Module::parse by section name                                           *)
(***************************************************************************)
\* parse_name: the section name split at its first `/`.
parse_name(name) ==
    LET names == splitn(name, 2, "/")
    IN [kind |-> Some(names[1]),
        name |-> IF Len(names) >= 2 THEN Some(names[2]) ELSE None]

\* ProgramKind::from_section.
from_section(section) ==
    IF section = <<"k", "r", "e", "t", "p", "r", "o", "b", "e">> THEN [res |-> "Ok", kind |-> "Kretprobe"]
    ELSE IF section = <<"k", "p", "r", "o", "b", "e">> THEN [res |-> "Ok", kind |-> "Kprobe"]
    ELSE [res |-> "Err", kind |-> "none"]

\* The arm of parse's match a section header is handled by.
SectionArm(sh_type, name) ==
    LET main_name == parse_name(name).kind
        secondary_name == parse_name(name).name
    IN IF sh_type = "SHT_REL" THEN "rel"
       ELSE IF sh_type = "SHT_PROGBITS" /\ main_name = Some(<<"v", "e", "r", "s", "i", "o", "n">>) THEN "version"
       ELSE IF sh_type = "SHT_PROGBITS" /\ main_name = Some(<<"l", "i", "c", "e", "n", "s", "e">>) THEN "license"
       ELSE IF sh_type = "SHT_PROGBITS" /\ main_name = Some(<<"m", "a", "p", "s">>)
               /\ secondary_name # None THEN "maps"
       ELSE IF sh_type = "SHT_PROGBITS"
               /\ main_name \in {Some(<<"k", "p", "r", "o", "b", "e">>), Some(<<"k", "r", "e", "t", "p", "r", "o", "b", "e">>)}
               /\ secondary_name # None THEN "prog"
       ELSE "other"

\* Program::new(kind, name, code) with the Program's name.
Program_new_named(kind, name) ==
    IF from_section(kind).res = "Err"
    THEN [res |-> "Err", prog |-> EmptyFn]
    ELSE [res |-> "Ok",
          prog |-> [name |-> name] @@ Program_new(from_section(kind).kind)]

\* Section names of the objects: `kprobe/a`, `kretprobe/a/b`, `xdp/e`, `socketfilter/e`, `kprobe`,
\* `maps/m`, `license`, `version`, `.text`.
SectionNames ==
    {<<"k", "p", "r", "o", "b", "e", "/", "a">>,
     <<"k", "r", "e", "t", "p", "r", "o", "b", "e", "/", "a", "/", "b">>,
     <<"x", "d", "p", "/", "e">>,
     <<"s", "o", "c", "k", "e", "t", "f", "i", "l", "t", "e", "r", "/", "e">>,
     <<"k", "p", "r", "o", "b", "e">>,
     <<"m", "a", "p", "s", "/", "m">>,
     <<"l", "i", "c", "e", "n", "s", "e">>,
     <<"v", "e", "r", "s", "i", "o", "n">>,
     <<".", "t", "e", "x", "t">>}
\* Section headers of the objects: program-bits sections of those names, a
\* relocation section without entries, a no-bits section named like a probe.
SectionHeaders ==
    {[sh_type |-> "SHT_PROGBITS", name |-> n] : n \in SectionNames}
      \cup {[sh_type |-> "SHT_REL", name |-> <<".", "r", "e", "l">>],
             [sh_type |-> "SHT_NOBITS", name |-> <<"k", "p", "r", "o", "b", "e", "/", "a">>]}

\* parse is called on an object of MaxNamedSections sections; its `version`
\* section, if it has one, holds 0x00040F00.
InitNamed ==
    /\ pc = "scan"
    /\ shndx = 1
    /\ programs = EmptyFn
    /\ maps = EmptyFn
    /\ rels = <<>>
    /\ relIdx = 0
    /\ progOrder = <<>>
    /\ mapOrder = <<>>
    /\ cursor = 0
    /\ err = NoErr
    /\ klog = <<>>
    /\ kernel = EmptyFn
    /\ vbytes = <<0, 15, 4, 0>>
    /\ release = <<>>
    /\ version = U32(0, 0)
    /\ calls = 0
    /\ cpus = {}
    /\ rings = <<>>
    /\ attachCalls = 0
    /\ object \in [1..MaxNamedSections -> SectionHeaders]
    /\ first = None
    /\ lastCall = NoCall
    /\ NoRing

\* The arm that handles the section the scan is at.
NamedArm ==
    IF pc = "scan" /\ shndx <= MaxNamedSections
    THEN SectionArm(object[shndx].sh_type, object[shndx].name)
    ELSE "none"

\* `_ => {}`, the license arm (the license is not part of this model), and
\* the relocation arm for a section without entries.
NamedOther ==
    /\ NamedArm \in {"other", "license", "rel"}
    /\ rels' = IF NamedArm = "rel" THEN add_rel(rels, shndx, 0, <<>>) ELSE rels
    /\ shndx' = shndx + 1
    /\ UNCHANGED <<pc, programs, maps, relIdx, progOrder, mapOrder, cursor,
                   err, klog, kernel, vbytes, release, version, calls, auxVars>>

\* The `version` arm.
NamedVersion ==
    /\ NamedArm = "version"
    /\ get_version(vbytes, release).res = "Ok"
    /\ version' = get_version(vbytes, release).val
    /\ shndx' = shndx + 1
    /\ UNCHANGED <<pc, programs, maps, rels, relIdx, progOrder, mapOrder, cursor,
                   err, klog, kernel, vbytes, release, calls, auxVars>>

\* The `maps/NAME` arm, bpf_create_map succeeds.
NamedMapOk ==
    /\ NamedArm = "maps"
    /\ LET fd == NewFd(DOMAIN kernel)
           out == Map_load(fd)
       IN /\ out.res = "Ok"
          /\ calls' = out.calls
          /\ maps' = maps @@ (shndx :> out.map)
          /\ kernel' = kernel @@ (fd :> "map")
    /\ shndx' = shndx + 1
    /\ UNCHANGED <<pc, programs, rels, relIdx, progOrder, mapOrder, cursor,
                   err, klog, vbytes, release, version, auxVars>>

\* The `maps/NAME` arm, bpf_create_map is refused: parse returns the error.
NamedMapRefused ==
    /\ NamedArm = "maps"
    /\ Map_load(Refused).res = "Err"
    /\ pc' = "err"
    /\ err' = Map_load(Refused).err
    /\ calls' = Map_load(Refused).calls
    /\ programs' = EmptyFn
    /\ maps' = EmptyFn
    /\ rels' = <<>>
    /\ UNCHANGED <<shndx, relIdx, progOrder, mapOrder, cursor, klog, kernel,
                   vbytes, release, version, auxVars>>

\* The `kprobe/NAME` and `kretprobe/NAME` arm.
NamedProg ==
    /\ NamedArm = "prog"
    /\ LET kind == CHOOSE k \in parse_name(object[shndx].name).kind : TRUE
           name == CHOOSE n \in parse_name(object[shndx].name).name : TRUE
           out == Program_new_named(kind, name)
       IN /\ out.res = "Ok"
          /\ programs' = programs @@ (shndx :> out.prog)
    /\ shndx' = shndx + 1
    /\ UNCHANGED <<pc, maps, rels, relIdx, progOrder, mapOrder, cursor,
                   err, klog, kernel, vbytes, release, version, calls, auxVars>>

\* Both loops are over (no relocation has an entry): the HashMaps are
\* drained and parse returns Ok(Module).
NamedParsed ==
    /\ pc = "scan"
    /\ shndx > MaxNamedSections
    /\ progOrder' \in Perms(DOMAIN programs)
    /\ mapOrder' \in Perms(DOMAIN maps)
    /\ pc' = "parsed"
    /\ UNCHANGED <<shndx, programs, maps, rels, relIdx, cursor, err, klog,
                   kernel, vbytes, release, version, calls, auxVars>>

NextNamed ==
    \/ NamedOther
    \/ NamedVersion
    \/ NamedMapOk
    \/ NamedMapRefused
    \/ NamedProg
    \/ NamedParsed

SpecNamed == InitNamed /\ [][NextNamed]_vars

(***************************************************************************)
(* A caller of Map::load, Program::load and Program::attach, by name       *)
(***************************************************************************)
\* The zero byte.
NUL == "NUL"
\* CString::new: fails with a NulError on a string that holds a zero byte.
CString_new(str) ==
    IF \E i \in 1..Len(str) : str[i] = NUL THEN "NulError" ELSE "Ok"

\* Map::load(name, code): `CString::new(name)?`, then Map::load's kernel call.
Map_load_named(name, kfd) ==
    IF CString_new(name) = "NulError"
    THEN [res |-> "Err", err |-> LoadError_StringConversion, map |-> EmptyFn,
          calls |-> 0]
    ELSE [Map_load(kfd) EXCEPT !.map = IF kfd < 0 THEN EmptyFn
                                       ELSE [name |-> name] @@ Map_load(kfd).map]

\* Program::load(kernel_version, license): `CString::new(license)?` and
\* `CString::new(self.name.clone())?`, then Program::load's kernel call.
Program_load_named(prog, license, kfd) ==
    IF CString_new(license) = "NulError" \/ CString_new(prog.name) = "NulError"
    THEN [res |-> "Err", err |-> LoadError_StringConversion, calls |-> 0,
          prog |-> prog]
    ELSE Program_load(prog, kfd)

\* Program::attach(): `CString::new(self.name.clone()).unwrap()` panics on a
\* name that holds a zero byte; then Program::attach's kernel call.
Program_attach_named(prog, kpfd) ==
    IF CString_new(prog.name) = "NulError"
    THEN [res |-> "panic", err |-> NoErr, calls |-> 0, prog |-> prog]
    ELSE Program_attach(prog, kpfd)

\* Program and Map names a caller passes: `a` and `a\0b`.
Names == {<<"a">>, <<"a", NUL, "b">>}
\* Licenses a caller passes: `GPL` and `G\0L`.
Licenses == {<<"G", "P", "L">>, <<"G", NUL, "L">>}

\* The caller has built a Program with Program::new(kind, name, code).
InitCalls ==
    /\ pc = "api"
    /\ shndx = 0
    /\ programs \in [{1} ->
                       {Program_new_named(kind, name).prog :
                          kind \in {<<"k", "p", "r", "o", "b", "e">>, <<"k", "r", "e", "t", "p", "r", "o", "b", "e">>}, name \in Names}]
    /\ maps = EmptyFn
    /\ rels = <<>>
    /\ relIdx = 0
    /\ progOrder = <<>>
    /\ mapOrder = <<>>
    /\ cursor = 0
    /\ err = NoErr
    /\ klog = <<>>
    /\ kernel = EmptyFn
    /\ vbytes = <<0, 0, 0, 0>>
    /\ release = <<>>
    /\ version = U32(0, 0)
    /\ calls = 0
    /\ AuxInit

\* The caller may make another call.
MayCall ==
    /\ pc = "api"
    /\ Cardinality(DOMAIN kernel) < MaxFds

\* Map::load(name, code); the caller lets the Map it gets go out of scope
\* (a Map has no Drop impl: its descriptor stays open).
CallMapLoad ==
    /\ MayCall
    /\ \E name \in Names, kfd \in {NewFd(DOMAIN kernel), Refused} :
         LET out == Map_load_named(name, kfd) IN
           /\ err' = out.err
           /\ calls' = out.calls
           /\ kernel' = IF out.res = "Ok" THEN kernel @@ (kfd :> "map") ELSE kernel
           /\ lastCall' = [op |-> "map", prog |-> 0,
                           nul |-> CString_new(name) = "NulError"]
    /\ UNCHANGED <<pc, shndx, programs, maps, rels, relIdx, progOrder, mapOrder,
                   cursor, klog, vbytes, release, version, ringVars, twiceVars,
                   readerVars>>

\* program.load(version, license).
CallLoad ==
    /\ MayCall
    /\ \E sh \in DOMAIN programs, license \in Licenses,
          kfd \in {NewFd(DOMAIN kernel), Refused} :
         LET out == Program_load_named(programs[sh], license, kfd) IN
           /\ programs' = [programs EXCEPT ![sh] = out.prog]
           /\ err' = out.err
           /\ calls' = out.calls
           /\ kernel' = IF out.res = "Ok" THEN kernel @@ (kfd :> "prog") ELSE kernel
           /\ klog' = IF out.calls = 0 THEN klog
                      ELSE IF kfd < 0 THEN VerifierLog ELSE <<>>
           /\ lastCall' = [op |-> "load", prog |-> sh,
                           nul |-> \/ CString_new(license) = "NulError"
                                   \/ CString_new(programs[sh].name) = "NulError"]
    /\ UNCHANGED <<pc, shndx, maps, rels, relIdx, progOrder, mapOrder, cursor,
                   vbytes, release, version, ringVars, twiceVars,
                   readerVars>>

\* program.attach().
CallAttach ==
    /\ MayCall
    /\ \E sh \in DOMAIN programs, kpfd \in {NewFd(DOMAIN kernel), Refused} :
         LET out == Program_attach_named(programs[sh], kpfd) IN
           /\ \/ /\ out.res = "panic"
                 /\ pc' = "panic_attach"
                 /\ UNCHANGED <<programs, err, kernel>>
              \/ /\ out.res # "panic"
                 /\ programs' = [programs EXCEPT ![sh] = out.prog]
                 /\ err' = out.err
                 /\ kernel' = IF out.res = "Ok" THEN kernel @@ (kpfd :> "attach")
                              ELSE kernel
                 /\ UNCHANGED pc
           /\ calls' = out.calls
           /\ lastCall' = [op |-> "attach", prog |-> sh,
                           nul |-> CString_new(programs[sh].name) = "NulError"]
    /\ UNCHANGED <<shndx, maps, rels, relIdx, progOrder, mapOrder, cursor, klog,
                   vbytes, release, version, ringVars, twiceVars,
                   readerVars>>

\* The caller writes the Program's public `name` field.
CallSetName ==
    /\ pc = "api"
    /\ \E sh \in DOMAIN programs, name \in Names :
         /\ programs' = [programs EXCEPT ![sh].name = name]
         /\ lastCall' = [op |-> "set_name", prog |-> sh, nul |-> FALSE]
    /\ UNCHANGED <<pc, shndx, maps, rels, relIdx, progOrder, mapOrder, cursor,
                   err, klog, kernel, vbytes, release, version, calls, ringVars,
                   twiceVars, readerVars>>

NextCalls ==
    \/ CallMapLoad
    \/ CallLoad
    \/ CallAttach
    \/ CallSetName

SpecCalls == InitCalls /\ [][NextCalls]_vars

(***************************************************************************)
(* One Ring: the kernel that writes it and the reader that drains it       *)
(***************************************************************************)
\* Record types of the ring's record header.
PERF_RECORD_LOST == 2
PERF_RECORD_SAMPLE == 9
\* Bytes of a record header: type (4), misc (2), size (2).
HeaderSize == 8

\* The Ring's data region holds page_size * page_count bytes.
DataSize == PageSize * rings[1].page_cnt

\* The records the kernel writes: samples of 24 and 32 bytes, and a lost
\* record of 24 bytes that reports one record.
RecordKinds ==
    {[type |-> PERF_RECORD_SAMPLE, size |-> 24],
     [type |-> PERF_RECORD_SAMPLE, size |-> 32],
     [type |-> PERF_RECORD_LOST, size |-> 24]}

\* Byte j (from 0) of the seq-th record the kernel writes: a little-endian
\* header, then for a sample the payload bytes, each its own value, and for
\* a lost record the id (8 bytes) and the count (8 bytes).
RecordByte(rec, seq, j) ==
    IF j = 0 THEN rec.type
    ELSE IF j < 6 THEN 0
    ELSE IF j = 6 THEN rec.size % 256
    ELSE IF j = 7 THEN rec.size \div 256
    ELSE IF rec.type = PERF_RECORD_SAMPLE THEN <<seq, j>>
    ELSE IF j = 16 THEN 1
    ELSE 0

\* n bytes of the data region from offset off as a reader would copy them
\* that stops at the end of the region instead of going through the wrap.
ReadBytes_NoWrap(off, n) ==
    [j \in 1..n |-> data[IF off + j - 1 < DataSize THEN off + j - 1 ELSE DataSize - 1]]

\* n bytes of the data region from offset off, copied out through the wrap.
ReadBytes(off, n) == [j \in 1..n |-> data[(off + j - 1) % DataSize]]

\* The record at the tail: its header decoded, its payload copied out.
RecordAtTail ==
    LET header == ReadBytes(tail % DataSize, HeaderSize)
        size == header[7] + 256 * header[8]
    IN [type |-> header[1] + 256 * header[2],
        size |-> size,
        payload |-> ReadBytes((tail + HeaderSize) % DataSize, size - HeaderSize)]

\* bind_perf has opened one Ring, for a Map of kind 4 and cpu 0; the kernel
\* has written nothing.
InitReader ==
    /\ pc = "idle"
    /\ shndx = 0
    /\ programs = EmptyFn
    /\ maps = 1 :> MapOfKind(PerfEventArray, NewFd(StdStreams))
    /\ rels = <<>>
    /\ relIdx = 0
    /\ progOrder = <<>>
    /\ mapOrder = <<1>>
    /\ cursor = 0
    /\ err = NoErr
    /\ klog = <<>>
    /\ kernel = Opened(EmptyFn, NewFds(StdStreams, 1), "map")
    /\ vbytes = <<0, 0, 0, 0>>
    /\ release = <<>>
    /\ version = U32(0, 0)
    /\ calls = 1
    /\ cpus = get_online(1)
    /\ rings = bind_perf(DOMAIN kernel)
    /\ attachCalls = 1
    /\ object = <<>>
    /\ first = None
    /\ lastCall = NoCall
    /\ head = 0
    /\ tail = 0
    /\ data = [off \in 0..(DataSize - 1) |-> 0]
    /\ kpending = 0
    /\ rhead = 0
    /\ written = <<>>
    /\ consumed = 0
    /\ delivered = <<>>
    /\ lost = 0

\* The kernel stores a record after the head, where the reader's published
\* tail leaves room for it; the head is not moved yet.
KernelStore ==
    /\ kpending = 0
    /\ Len(written) < MaxWrites
    /\ \E rec \in RecordKinds :
         /\ (head - tail) + rec.size <= DataSize
         /\ data' = [off \in 0..(DataSize - 1) |->
                       IF (off - head) % DataSize < rec.size
                       THEN RecordByte(rec, Len(written) + 1, (off - head) % DataSize)
                       ELSE data[off]]
         /\ kpending' = rec.size
    /\ UNCHANGED <<pc, shndx, programs, maps, rels, relIdx, progOrder, mapOrder,
                   cursor, err, klog, kernel, vbytes, release, version, calls,
                   ringVars, twiceVars, callVars, head, tail, rhead, written,
                   consumed, delivered, lost>>

\* The kernel publishes the record it stored: the head moves past it.
KernelPublish ==
    /\ kpending > 0
    /\ head' = head + kpending
    /\ written' = Append(written, [type |-> data[head % DataSize], size |-> kpending])
    /\ kpending' = 0
    /\ UNCHANGED <<pc, shndx, programs, maps, rels, relIdx, progOrder, mapOrder,
                   cursor, err, klog, kernel, vbytes, release, version, calls,
                   ringVars, twiceVars, callVars, tail, data, rhead, consumed,
                   delivered, lost>>

\* The reader wakes: it loads head (acquire) and starts to drain.
ReaderPoll ==
    /\ pc = "idle"
    /\ rhead' = head
    /\ pc' = "drain"
    /\ UNCHANGED <<shndx, programs, maps, rels, relIdx, progOrder, mapOrder,
                   cursor, err, klog, kernel, vbytes, release, version, calls,
                   ringVars, twiceVars, callVars, head, tail, data, kpending,
                   written, consumed, delivered, lost>>

\* One iteration of `while head != tail`: the record at the tail is decoded
\* and dispatched by its type, and the tail is advanced by its size and
\* published (release).
ReaderRead ==
    /\ pc = "drain"
    /\ rhead # tail
    /\ delivered' = IF RecordAtTail.type = PERF_RECORD_SAMPLE
                    THEN Append(delivered, RecordAtTail.payload)
                    ELSE delivered
    /\ lost' = IF RecordAtTail.type = PERF_RECORD_LOST
               THEN lost + RecordAtTail.payload[9]
               ELSE lost
    /\ tail' = tail + RecordAtTail.size
    /\ consumed' = consumed + 1
    /\ UNCHANGED <<pc, shndx, programs, maps, rels, relIdx, progOrder, mapOrder,
                   cursor, err, klog, kernel, vbytes, release, version, calls,
                   ringVars, twiceVars, callVars, head, data, kpending, rhead,
                   written>>

\* The tail has reached the head the reader loaded: the reader yields.
ReaderYield ==
    /\ pc = "drain"
    /\ rhead = tail
    /\ pc' = "idle"
    /\ UNCHANGED <<shndx, programs, maps, rels, relIdx, progOrder, mapOrder,
                   cursor, err, klog, kernel, vbytes, release, version, calls,
                   auxVars>>

NextReader ==
    \/ KernelStore
    \/ KernelPublish
    \/ ReaderPoll
    \/ ReaderRead
    \/ ReaderYield

SpecReader == InitReader /\ [][NextReader]_vars

(***************************************************************************)
(* Properties                                                              *)
(***************************************************************************)
Panics == {"panic_reloc", "panic_load", "panic_attach", "panic_version", "panic_bind"}

\* C1: in every state a sequence of Program::load and Program::attach calls
\* reaches, a Program that has an attach-handle has a load-handle.
C1_AttachedImpliesLoaded ==
    \A s \in DOMAIN programs :
      Program_is_attached(programs[s]) => Program_is_loaded(programs[s])

\* A Program is loaded and attached, and the last call on some Program failed.
C1_Witness ==
    /\ pc = "api"
    /\ err = LoadError_BPF
    /\ \E s \in DOMAIN programs :
         Program_is_attached(programs[s]) /\ Program_is_loaded(programs[s])

\* The instruction slot a relocation addresses.
InsnIndex(rel) == rel.offset \div InsnSize
\* The kernel handle of the Map a relocation's symbol resolves to.
RelMapFd(rel) == maps[symtab[rel.sym]].fd
\* Relocation j is applied after i and writes the same instruction.
Overwrites(j, i) ==
    /\ j > i
    /\ rels[j].target = rels[i].target
    /\ InsnIndex(rels[j]) = InsnIndex(rels[i])

\* C2 as stated: after parse, for every relocation parse applied, the
\* instruction at offset / sizeof(instruction) has src_reg equal to the
\* pseudo-map-descriptor sentinel and imm equal to the handle of the Map the
\* relocation's symbol resolves to.
C2_EveryRelocationPatched ==
    pc = "parsed" =>
      \A i \in 1..relIdx :
        LET insn == programs[rels[i].target].code[InsnIndex(rels[i])] IN
          /\ insn.src_reg = BPF_PSEUDO_MAP_FD
          /\ insn.imm = RelMapFd(rels[i])

\* C2 as amended: while and after parse applies the relocations, for every
\* relocation applied so far the instruction at offset / sizeof(instruction)
\* has src_reg equal to the sentinel, and imm equal to the handle of the
\* relocation's Map unless a relocation applied later wrote the same
\* instruction.
C2_LastRelocationPatched ==
    pc \in {"reloc", "parsed"} =>
      \A i \in 1..relIdx :
        LET insn == programs[rels[i].target].code[InsnIndex(rels[i])] IN
          /\ insn.src_reg = BPF_PSEUDO_MAP_FD
          /\ (\A j \in 1..relIdx : ~Overwrites(j, i)) => insn.imm = RelMapFd(rels[i])

\* parse returned a Module in which two relocations of different Maps wrote
\* instruction 2 of the same Program, the second through offset 20.
C2_Witness ==
    /\ pc = "parsed"
    /\ relIdx = 2
    /\ Overwrites(2, 1)
    /\ rels[2].offset = 20
    /\ RelMapFd(rels[1]) # RelMapFd(rels[2])
    /\ programs[rels[2].target].code[2].imm = RelMapFd(rels[2])
    /\ programs[rels[2].target].code[2].src_reg = BPF_PSEUDO_MAP_FD

\* C3: no relocation is applied before every section of the object has been
\* scanned, and the Map of every applied relocation holds a handle that
\* bpf_create_map returned, whatever the order of the sections.
C3_MapMaterializedBeforeApply ==
    pc \in {"scan", "reloc", "parsed"} =>
      /\ relIdx > 0 => shndx > MaxSections
      /\ \A i \in 1..relIdx :
           /\ rels[i].sym \in DOMAIN symtab
           /\ symtab[rels[i].sym] \in DOMAIN maps
           /\ RelMapFd(rels[i]) \in DOMAIN kernel
           /\ kernel[RelMapFd(rels[i])] = "map"

\* parse applied a relocation whose section precedes the section of its Map.
C3_Witness ==
    /\ pc = "parsed"
    /\ \E i \in 1..relIdx :
         /\ rels[i].shndx < symtab[rels[i].sym]
         /\ programs[rels[i].target].code[InsnIndex(rels[i])].imm = RelMapFd(rels[i])

Unresolved(rel) ==
    \/ rel.target \notin DOMAIN programs
    \/ rel.sym \notin DOMAIN symtab
    \/ symtab[rel.sym] \notin DOMAIN maps

\* C5: applying a relocation whose target is no parsed Program, or whose
\* symbol resolves to no materialized Map, makes parse return the
\* relocation error.
C5_UnresolvedIsRelocError ==
    [][(pc = "reloc" /\ relIdx < Len(rels) /\ Unresolved(rels[relIdx + 1]))
         => (pc' = "err" /\ err' = LoadError_Reloc)]_vars

\* C6: when the kernel refuses prog_load, the error the caller gets carries
\* the verifier log, and the failure is an error value, not an abort.
C6_RefusedLoadReturnsLog ==
    klog # <<>> => (err.payload = klog /\ pc \notin Panics)

\* C7: after an attach that failed, no attachment of the Module is left open.
C7_FailedAttachUnwinds ==
    pc = "panic_attach" => \A fd \in DOMAIN kernel : kernel[fd] # "attach"

\* C8: after a load that failed, no map handle is left open.
C8_FailedLoadReleasesMaps ==
    pc = "err" => \A fd \in DOMAIN kernel : kernel[fd] # "map"

\* C9: once the Module is dropped, its attachment, program and map handles
\* have been released.
C9_DropReleasesHandles ==
    pc = "dropped" => DOMAIN kernel = {}

\* Bit k of n.
RECURSIVE Bit(_, _)
Bit(n, k) == IF k = 0 THEN n % 2 ELSE Bit(n \div 2, k - 1)
Or3(a, b, c) == IF a = 1 \/ b = 1 \/ c = 1 THEN 1 ELSE 0

\* v is (major << 16) | (minor << 8) | patch, bit by bit.
IsReleaseCode(v, major, minor, patch) ==
    /\ \A k \in 0..15 :
         Bit(v.lo, k) = Or3(0, Bit(minor * 256, k), Bit(patch, k))
    /\ \A k \in 0..15 :
         Bit(v.hi, k) = Or3(Bit(major, k), Bit(minor * 256, k + 16), Bit(patch, k + 16))

C11_AsStated ==
    (/\ shndx = 2
     /\ vbytes = <<254, 255, 255, 0>>
     /\ release = FormatRelease(5, 15, 0, <<"-", "9", "1">>))
      => version = U32(5, 3840)

\* C11: an object whose `version` section holds 0xFFFFFFFE, parsed on a host
\* whose release is 5.15.0-91, yields Module.version (5<<16)|(15<<8)|0, which
\* is 0x00050F00; a section that holds 0x00FFFFFE yields 0x00FFFFFE there.
C11_SentinelOnHost ==
    (/\ shndx = 2
     /\ release = FormatRelease(5, 15, 0, <<"-", "9", "1">>))
      => /\ vbytes = <<254, 255, 255, 255>> => version = U32(5, 3840)
         /\ vbytes = <<254, 255, 255, 0>> => version = U32(255, 65534)

\* parse returned on the host 5.15.0-91 for the object that holds the
\* sentinel: Module.version is 0x00050F00.
C11_Witness ==
    /\ pc = "parsed"
    /\ vbytes = <<254, 255, 255, 255>>
    /\ release = FormatRelease(5, 15, 0, <<"-", "9", "1">>)
    /\ version = U32(5, 3840)

\* The Rings open for Map sh and cpu c.
RingsOf(sh, c) == {i \in 1..Len(rings) : rings[i].map = sh /\ rings[i].cpu = c}

\* C12: once the Grain's attach operations have bound the rings, every Map
\* of kind 4 has exactly one Ring for each online cpu c, registered under key
\* c, and no other Map has a Ring, whichever attach operations were invoked
\* and however many times.
C12_OneRingPerMapAndCpu ==
    pc = "attached" =>
      /\ \A i \in 1..Len(rings) : rings[i].key = rings[i].cpu
      /\ \A sh \in DOMAIN maps :
           \A i \in 1..Len(cpus) :
             Cardinality(RingsOf(sh, cpus[i]))
               = IF maps[sh].kind = PerfEventArray THEN 1 ELSE 0

\* C13: Module::parse is deterministic: when the same object has been parsed
\* twice, the second Module's Programs (with their instruction arrays) and
\* Maps are the first Module's, in the same order.
C13_ParseDeterministic ==
    (pc = "parsed" /\ first # None) => first = Some(ParsedModule)

\* The fields that hold the kernel handle h: a Program's load-handle or
\* attach-handle, or a Map's descriptor.
Owners(h) ==
    {<<sh, "fd">> : sh \in {x \in DOMAIN programs : h \in programs[x].fd}}
      \cup {<<sh, "pfd">> : sh \in {x \in DOMAIN programs : h \in programs[x].pfd}}
      \cup {<<sh, "map">> : sh \in {x \in DOMAIN maps : maps[x].fd = h}}

\* C14: every kernel handle the kernel has returned and that is not yet
\* released is owned by exactly one object, also after Program::load or
\* Program::attach is called again on the same Program.
C14_HandleOwnedByOne ==
    \A h \in DOMAIN kernel : Cardinality(Owners(h)) = 1

BeforeSlash(n) == SubSeq(n, 1, IndexOf(n, "/") - 1)
AfterSlash(n) == SubSeq(n, IndexOf(n, "/") + 1, Len(n))
\* The Program kind a section-name prefix stands for.
PrefixKinds ==
    (<<"k", "p", "r", "o", "b", "e">> :> "Kprobe") @@ (<<"k", "r", "e", "t", "p", "r", "o", "b", "e">> :> "Kretprobe")
      @@ (<<"x", "d", "p">> :> "XDP") @@ (<<"s", "o", "c", "k", "e", "t", "f", "i", "l", "t", "e", "r">> :> "SocketFilter")
\* Section i of the object is a program-bits section named PREFIX/NAME with
\* PREFIX one of kprobe, kretprobe, xdp, socketfilter.
IsProgramSection(i) ==
    /\ object[i].sh_type = "SHT_PROGBITS"
    /\ IndexOf(object[i].name, "/") > 0
    /\ BeforeSlash(object[i].name) \in DOMAIN PrefixKinds

\* C16: the Module parse returns has, for every program-bits section named
\* kprobe/SYM, kretprobe/SYM, xdp/IFACE or socketfilter/IFACE, one Program of
\* the corresponding kind whose name is the part after the first `/`, and no
\* Program for any other section.
C16_ProgramPerProgramSection ==
    pc = "parsed" =>
      /\ \A i \in 1..Len(progOrder), j \in 1..Len(progOrder) :
           progOrder[i] = progOrder[j] => i = j
      /\ \A i \in 1..MaxNamedSections :
           IF IsProgramSection(i)
           THEN /\ \E k \in 1..Len(progOrder) : progOrder[k] = i
                /\ programs[i].kind = PrefixKinds[BeforeSlash(object[i].name)]
                /\ programs[i].name = AfterSlash(object[i].name)
           ELSE \A k \in 1..Len(progOrder) : progOrder[k] # i

\* C17: a Map::load, Program::load or Program::attach that is passed an
\* identifier (license, Program name, Map name) holding a NUL byte returns
\* StringConversion, issues no kernel call and sets no handle, also when the
\* Program's name was written between load and attach.
C17_NulIsStringConversion ==
    [][(lastCall'.op \in {"map", "load", "attach"} /\ lastCall'.nul)
         => /\ pc' = "api"
            /\ err' = LoadError_StringConversion
            /\ calls' = 0
            /\ kernel' = kernel
            /\ programs' = programs]_vars

\* C20: a Program::load or Program::attach the kernel refused leaves the
\* Program as it was: load-handle, attach-handle, kind, name and
\* instructions are those from before the call.
C20_FailedCallLeavesProgram ==
    [][(lastCall'.op \in {"load", "attach"} /\ err' = LoadError_BPF /\ pc' = "api")
         => programs' = programs]_vars

\* The kernel refused an attach on a Program that is loaded and attached:
\* the Program still holds both handles.
C20_Witness ==
    /\ pc = "api"
    /\ lastCall.op = "attach"
    /\ err = LoadError_BPF
    /\ calls = 1
    /\ Program_is_loaded(programs[lastCall.prog])
    /\ Program_is_attached(programs[lastCall.prog])

\* The payload the kernel wrote into its seq-th record.
PayloadOf(seq) ==
    [j \in 1..(written[seq].size - HeaderSize) |->
       RecordByte(written[seq], seq, j + HeaderSize - 1)]
\* The sample records among the first n the kernel wrote, oldest first.
RECURSIVE SamplesUpTo(_)
SamplesUpTo(n) ==
    IF n = 0 THEN <<>>
    ELSE IF written[n].type = PERF_RECORD_SAMPLE
    THEN Append(SamplesUpTo(n - 1), PayloadOf(n))
    ELSE SamplesUpTo(n - 1)
\* The sizes of the first n records the kernel wrote, added up.
RECURSIVE BytesUpTo(_)
BytesUpTo(n) == IF n = 0 THEN 0 ELSE BytesUpTo(n - 1) + written[n].size

\* C18: in every state the interleavings of kernel writes and reader drains
\* reach, what the reader has delivered to the callback is the payloads of
\* the sample records among the records it consumed, which are the first
\* records the kernel published, in the order the kernel wrote them: each
\* once, none skipped.
C18_DeliveredInWriteOrder ==
    /\ consumed <= Len(written)
    /\ delivered = SamplesUpTo(consumed)

\* The reader has delivered three samples, the third of which the kernel
\* wrote through the end of the data region, while a fourth record waits.
C18_Witness ==
    /\ Len(delivered) = 3
    /\ consumed = 3
    /\ Len(written) = 4
    /\ written[3].size = 32
    /\ (tail - 1) % DataSize < (tail - written[3].size) % DataSize

RECURSIVE IsPowerOfTwo(_)
IsPowerOfTwo(n) == n = 1 \/ (n > 1 /\ n % 2 = 0 /\ IsPowerOfTwo(n \div 2))

NextRel == rels[relIdx + 1]

\* Program sh after the step is Program sh before it, but for the src_reg
\* and imm fields of the instruction rel addresses when sh is rel's target.
SameButPatched(sh, rel) ==
    /\ programs'[sh].fd = programs[sh].fd
    /\ programs'[sh].pfd = programs[sh].pfd
    /\ programs'[sh].kind = programs[sh].kind
    /\ DOMAIN programs'[sh].code = DOMAIN programs[sh].code
    /\ \A i \in DOMAIN programs[sh].code :
         IF sh = rel.target /\ i = InsnIndex(rel)
         THEN /\ programs'[sh].code[i].code = programs[sh].code[i].code
              /\ programs'[sh].code[i].dst_reg = programs[sh].code[i].dst_reg
              /\ programs'[sh].code[i].off = programs[sh].code[i].off
         ELSE programs'[sh].code[i] = programs[sh].code[i]

\* C21: a step that applies one relocation leaves every Map, every other
\* Program, every other instruction of the target Program and every field
\* but src_reg and imm of the instruction at offset / sizeof(instruction) as
\* they were; and a relocation that resolves no Program or no Map is
\* returned from with the Programs as they were.
C21_RelocationFrame ==
    [][(pc = "reloc" /\ relIdx < Len(rels))
         => /\ (pc' = "reloc" /\ relIdx' = relIdx + 1)
                 => /\ maps' = maps
                    /\ DOMAIN programs' = DOMAIN programs
                    /\ \A sh \in DOMAIN programs : SameButPatched(sh, NextRel)
            /\ Unresolved(NextRel)
                 => /\ Rel_apply(NextRel, programs, maps).res # "Ok"
                    /\ Rel_apply(NextRel, programs, maps).programs = programs]_vars

\* A relocation has been applied to one Program of two: the instruction it
\* addresses is patched, and the other Program holds no patched instruction.
C21_Witness ==
    /\ pc = "reloc"
    /\ relIdx = 1
    /\ programs[rels[1].target].code[InsnIndex(rels[1])].src_reg = BPF_PSEUDO_MAP_FD
    /\ programs[rels[1].target].code[InsnIndex(rels[1])].dst_reg = ObjInsn.dst_reg
    /\ \E sh \in DOMAIN programs :
         /\ sh # rels[1].target
         /\ \A i \in DOMAIN programs[sh].code : programs[sh].code[i] = ObjInsn
====
